---------------------------- MODULE Spec2Model ----------------------------
(***************************************************************************)
(* Model of the integer-cbrt crate (src/src/lib.rs): the trait             *)
(* IntegerCubeRoot and its blanket implementation for every primitive      *)
(* integer type.                                                           *)
(*                                                                         *)
(* A value of a primitive type of width W is held as its W-bit two's       *)
(* complement pattern, a natural number below 2^W.  Natural numbers are    *)
(* little-endian sequences of limbs without leading zero limbs (zero is    *)
(* the empty sequence), because the values of the widths 32, 64 and 128    *)
(* exceed the integers TLC computes with.  The operations of the types     *)
(* (+, *, -, <<, >>, >=, cmp) are modelled on patterns, each one together  *)
(* with the condition under which Rust reports an overflow.                *)
(***************************************************************************)
EXTENDS Integers, Sequences, FiniteSets, TLC

-----------------------------------------------------------------------------
(* Natural numbers of arbitrary size.                                      *)

\* F applied to the value of v (of v and w), each evaluated once
Let(v, F(_)) == CHOOSE r \in {F(e) : e \in {v}} : TRUE

Let2(v, w, F(_, _)) == CHOOSE r \in {F(d, e) : d \in {v}, e \in {w}} : TRUE

LimbBits == 5 * 3
Base == 2 ^ LimbBits

Limb(a, i) == IF i <= Len(a) THEN a[i] ELSE 0

RECURSIVE Norm(_)
Norm(a) ==
    IF a = <<>> THEN a
    ELSE IF a[Len(a)] = 0 THEN Norm(SubSeq(a, 1, Len(a) - 1)) ELSE a

RECURSIVE FromInt(_)
FromInt(n) == IF n = 0 THEN <<>> ELSE <<n % Base>> \o FromInt(n \div Base)

RECURSIVE AddFrom(_, _, _, _)
AddFrom(a, b, i, c) ==
    IF i > Len(a) /\ i > Len(b)
    THEN (IF c = 0 THEN <<>> ELSE <<c>>)
    ELSE LET t == Limb(a, i) + Limb(b, i) + c
         IN  <<t % Base>> \o AddFrom(a, b, i + 1, t \div Base)

Add(a, b) == Let2(a, b, LAMBDA d, e : AddFrom(d, e, 1, 0))

RECURSIVE SubFrom(_, _, _, _)
SubFrom(a, b, i, c) ==
    IF i > Len(a) THEN <<>>
    ELSE LET t == a[i] - Limb(b, i) - c
         IN  IF t < 0 THEN <<t + Base>> \o SubFrom(a, b, i + 1, 1)
                      ELSE <<t>> \o SubFrom(a, b, i + 1, 0)

\* a - b for a >= b
Sub(a, b) == Let2(a, b, LAMBDA d, e : Norm(SubFrom(d, e, 1, 0)))

RECURSIVE GeqFrom(_, _, _)
GeqFrom(a, b, i) ==
    IF i = 0 THEN TRUE
    ELSE IF a[i] # b[i] THEN a[i] > b[i] ELSE GeqFrom(a, b, i - 1)

Geq(a, b) ==
    Let2(a, b, LAMBDA d, e :
        IF Len(d) # Len(e) THEN Len(d) > Len(e) ELSE GeqFrom(d, e, Len(d)))

Gt(a, b) == ~Geq(b, a)

RECURSIVE MulLimbFrom(_, _, _, _)
MulLimbFrom(a, k, i, c) ==
    IF i > Len(a) THEN (IF c = 0 THEN <<>> ELSE <<c>>)
    ELSE LET t == a[i] * k + c
         IN  <<t % Base>> \o MulLimbFrom(a, k, i + 1, t \div Base)

MulLimb(a, k) == IF k = 0 THEN <<>> ELSE MulLimbFrom(a, k, 1, 0)

ShiftLimbs(a, q) == IF a = <<>> THEN a ELSE [i \in 1..q |-> 0] \o a

RECURSIVE MulFrom(_, _, _)
MulFrom(a, b, j) ==
    IF j > Len(b) THEN <<>>
    ELSE Add(ShiftLimbs(MulLimb(a, b[j]), j - 1), MulFrom(a, b, j + 1))

Mul(a, b) == Let2(a, b, LAMBDA d, e : MulFrom(d, e, 1))

\* a * 2^n
Shl(a, n) ==
    Let2(a, n, LAMBDA d, e :
        ShiftLimbs(MulLimb(d, 2 ^ (e % LimbBits)), e \div LimbBits))

\* floor(a / 2^n)
Shr(a, n) ==
    Let2(a, n, LAMBDA d, e :
        LET q == e \div LimbBits
            r == e % LimbBits
            m == Len(d) - q
        IN  IF m <= 0 THEN <<>>
            ELSE Norm([i \in 1..m |->
                         (d[q + i] \div (2 ^ r))
                         + (Limb(d, q + i + 1) % (2 ^ r)) * (2 ^ (LimbBits - r))]))

\* a mod 2^w
Trunc(a, w) ==
    Let2(a, w, LAMBDA d, e :
        LET q == e \div LimbBits
            r == e % LimbBits
        IN  IF Len(d) <= q THEN d
            ELSE Norm([i \in 1..(q + 1) |->
                         IF i <= q THEN d[i] ELSE d[i] % (2 ^ r)]))

\* bit n of a
Bit(a, n) == (Limb(a, n \div LimbBits + 1) \div (2 ^ (n % LimbBits))) % 2

Pow2(n) == Shl(<<1>>, n)

Cube(a) == Let(a, LAMBDA e : Mul(e, Mul(e, e)))

Succ(a) == Add(a, <<1>>)

Pred(a) == IF a = <<>> THEN a ELSE Sub(a, <<1>>)

\* the number written hi followed by the six decimal digits of lo
Dec(hi, lo) == Add(Mul(FromInt(hi), FromInt(1000000)), FromInt(lo))

-----------------------------------------------------------------------------
(* The primitive integer types (num_traits::PrimInt) and their operations. *)

\* i8 u8 i16 u16 i32 u32 i64 u64 i128 u128; isize and usize are one of these
Types == [bits : {8, 16, 32, 64, 128}, signed : BOOLEAN]

Modulus(T) == Pow2(T.bits)

SignBit(T) == Pow2(T.bits - 1)

\* T::max_value()
MaxValue(T) == Sub(IF T.signed THEN SignBit(T) ELSE Modulus(T), <<1>>)

\* the pattern p (below 2^bits) read as a value of T is below zero
IsNeg(T, p) == T.signed /\ Bit(p, T.bits - 1) = 1

\* |p| for the pattern p read as a value of T
Magnitude(T, p) == IF IsNeg(T, p) THEN Sub(Modulus(T), p) ELSE p

\* T::zero(), T::one()
Zero(T) == <<>>

One(T) == <<1>>

\* a + b in T: the wrapped result, and whether the addition overflows T
WAdd(T, a, b) ==
    Let(Add(a, b), LAMBDA exact :
    Let(Trunc(exact, T.bits), LAMBDA val :
        [val |-> val,
         ovf |-> IF T.signed
                 THEN IsNeg(T, a) = IsNeg(T, b) /\ IsNeg(T, val) # IsNeg(T, a)
                 ELSE val # exact]))

\* a - b in T
WSub(T, a, b) ==
    Let(Trunc(Add(a, Sub(Modulus(T), b)), T.bits), LAMBDA val :
        [val |-> val,
         ovf |-> IF T.signed
                 THEN IsNeg(T, a) # IsNeg(T, b) /\ IsNeg(T, val) # IsNeg(T, a)
                 ELSE Gt(b, a)])

\* a * b in T
WMul(T, a, b) ==
    Let(Mul(a, b), LAMBDA exact :
    Let(Trunc(exact, T.bits), LAMBDA val :
        [val |-> val,
         ovf |-> IF T.signed
                 THEN Let(Mul(Magnitude(T, a), Magnitude(T, b)), LAMBDA mag :
                          IF IsNeg(T, a) # IsNeg(T, b)
                          THEN Gt(mag, SignBit(T))
                          ELSE Geq(mag, SignBit(T)))
                 ELSE val # exact]))

\* a << n in T: bits shifted out are dropped; n >= bits is the overflow
\* (a build without overflow checks masks the shift amount).  lost: the
\* exact a * 2^n is not a value of [0, MAX].
WShl(T, a, n) ==
    Let(Shl(a, n % T.bits), LAMBDA exact :
    Let(Trunc(exact, T.bits), LAMBDA val :
        [val  |-> val,
         ovf  |-> n >= T.bits,
         lost |-> n >= T.bits \/ IsNeg(T, a) \/ val # exact \/ IsNeg(T, val)]))

\* WShr, shifting arithmetically whatever the signedness of T
WShr_Signed(T, a, n) ==
    Let(n % T.bits, LAMBDA k :
        [val |-> IF Bit(a, T.bits - 1) = 1
                 THEN Add(Shr(a, k), Sub(Modulus(T), Pow2(T.bits - k)))
                 ELSE Shr(a, k),
         ovf |-> n >= T.bits])

\* a >> n in T: logical for unsigned types, arithmetic for signed ones
WShr(T, a, n) ==
    Let(n % T.bits, LAMBDA k :
        [val |-> IF IsNeg(T, a)
                 THEN Add(Shr(a, k), Sub(Modulus(T), Pow2(T.bits - k)))
                 ELSE Shr(a, k),
         ovf |-> n >= T.bits])

\* GeqT, with > for >=
GeqT_Strict(T, a, b) ==
    IF IsNeg(T, a) # IsNeg(T, b) THEN IsNeg(T, b) ELSE Gt(a, b)

\* a >= b in T
GeqT(T, a, b) ==
    IF IsNeg(T, a) # IsNeg(T, b) THEN IsNeg(T, b) ELSE Geq(a, b)

\* CmpZero, comparing the pattern as an unsigned number
CmpZero_Unsigned(T, p) == IF p = Zero(T) THEN "Equal" ELSE "Greater"

\* self.cmp(&T::zero())
CmpZero(T, p) ==
    IF IsNeg(T, p) THEN "Less" ELSE IF p = Zero(T) THEN "Equal" ELSE "Greater"

-----------------------------------------------------------------------------
(* integer_cbrt_checked: the parts of the loop.                            *)

\* let three = one + one + one;
Three(T) == WAdd(T, WAdd(T, One(T), One(T)).val, One(T)).val

\* NumBits, as T::one().leading_zeros()
NumBits_OfOne(T) == T.bits - 1

\* T::zero().leading_zeros()
NumBits(T) == T.bits

\* (lo..hi).step_by(k)
StepBy(lo, hi, k) == [i \in 1..((hi - lo + k - 1) \div k) |-> lo + (i - 1) * k]

\* Rev, left out
Rev_Off(q) == q

\* .rev()
Rev(q) == [i \in 1..Len(q) |-> q[Len(q) + 1 - i]]

\* (0..num_bits).step_by(3).rev()
Shifts(num_bits) == Rev(StepBy(0, num_bits, 3))

\* Threshold, without the final + one
Threshold_NoOne(T, r2) ==
    Let(WMul(T, Three(T), r2), LAMBDA t1 :
    Let(WAdd(T, r2, One(T)), LAMBDA t2 :
    Let(WMul(T, t1.val, t2.val), LAMBDA t3 :
        [val |-> t3.val,
         ovf |-> t1.ovf \/ t2.ovf \/ t3.ovf,
         neg |-> \E v \in {t1.val, t2.val, t3.val} : IsNeg(T, v)])))

\* Threshold, computed as (result + one)^3 - result^3
Threshold_ByCubes(T, r2) ==
    Let(WAdd(T, r2, One(T)), LAMBDA t1 :
    Let(WMul(T, t1.val, t1.val), LAMBDA t2 :
    Let(WMul(T, t2.val, t1.val), LAMBDA t3 :
    Let(WMul(T, WMul(T, r2, r2).val, r2), LAMBDA t4 :
    Let(WSub(T, t3.val, t4.val), LAMBDA b :
        [val |-> b.val,
         ovf |-> t1.ovf \/ t2.ovf \/ t3.ovf \/ t4.ovf \/ b.ovf,
         neg |-> \E v \in {t1.val, t2.val, t3.val, t4.val, b.val} : IsNeg(T, v)])))))

\* three * result * (result + one) + one, for the doubled result r2: the
\* value b, with ovf and neg: one of the four operations overflowed T,
\* gave a value below zero
Threshold(T, r2) ==
    Let(WMul(T, Three(T), r2), LAMBDA t1 :
    Let(WAdd(T, r2, One(T)), LAMBDA t2 :
    Let(WMul(T, t1.val, t2.val), LAMBDA t3 :
    Let(WAdd(T, t3.val, One(T)), LAMBDA b :
        [val |-> b.val,
         ovf |-> t1.ovf \/ t2.ovf \/ t3.ovf \/ b.ovf,
         neg |-> \E v \in {t1.val, t2.val, t3.val, b.val} : IsNeg(T, v)]))))

\* Branch, subtracting b instead of b << s
Branch_NoShift(T, s, x, r2, b) ==
    Let(WSub(T, x, b), LAMBDA nx :
    Let(WAdd(T, r2, One(T)), LAMBDA nr :
        [x |-> nx.val, result |-> nr.val,
         ovf |-> nx.ovf \/ nr.ovf,
         bad |-> nx.ovf \/ nr.ovf \/ IsNeg(T, nx.val) \/ IsNeg(T, nr.val)]))

\* the branch of the if: x - (b << s) and result + one
Branch(T, s, x, r2, b) ==
    Let(WShl(T, b, s), LAMBDA bs :
    Let(WSub(T, x, bs.val), LAMBDA nx :
    Let(WAdd(T, r2, One(T)), LAMBDA nr :
        [x |-> nx.val, result |-> nr.val,
         ovf |-> bs.ovf \/ nx.ovf \/ nr.ovf,
         bad |-> bs.lost \/ nx.ovf \/ nr.ovf
                 \/ IsNeg(T, nx.val) \/ IsNeg(T, nr.val)])))

\* One pass of the body of the for loop with shift s, from x and result:
\* the new x and result, whether the branch was taken, ovf: some operation
\* overflowed T, ok: every value computed lies in [0, MAX] and s < bits.
LoopBody(T, s, x, result) ==
    Let(WAdd(T, result, result), LAMBDA r2 :
    Let(Threshold(T, r2.val), LAMBDA b :
    Let(WShr(T, x, s), LAMBDA sh :
    Let(r2.ovf \/ b.ovf \/ sh.ovf, LAMBDA ovf0 :
    Let(IsNeg(T, r2.val) \/ b.neg \/ IsNeg(T, sh.val), LAMBDA neg0 :
        IF GeqT(T, sh.val, b.val)
        THEN Let(Branch(T, s, x, r2.val, b.val), LAMBDA br :
                 [x |-> br.x, result |-> br.result, taken |-> TRUE,
                  ovf |-> ovf0 \/ br.ovf,
                  ok  |-> ~(ovf0 \/ neg0 \/ br.bad)])
        ELSE [x |-> x, result |-> r2.val, taken |-> FALSE,
              ovf |-> ovf0, ok |-> ~(ovf0 \/ neg0)])))))

\* the for loop over the shifts q, from st = [x, result, ovf]
RECURSIVE RunLoop(_, _, _)
RunLoop(T, q, st) ==
    IF q = <<>> THEN st
    ELSE IF Len(q) = 1
    THEN Let(LoopBody(T, q[1], st.x, st.result), LAMBDA body :
             [x |-> body.x, result |-> body.result, ovf |-> st.ovf \/ body.ovf])
    ELSE Let(RunLoop(T, SubSeq(q, 1, Len(q) \div 2), st), LAMBDA half :
             RunLoop(T, SubSeq(q, Len(q) \div 2 + 1, Len(q)), half))

\* self.integer_cbrt_checked() as a function of self; ovf: an operation
\* overflowed, so that a build with overflow checks panics instead
IntegerCbrtChecked(T, v) ==
    Let(CmpZero(T, v), LAMBDA ord :
        IF ord = "Less" THEN [tag |-> "None", val |-> Zero(T), ovf |-> FALSE]
        ELSE IF ord = "Equal" THEN [tag |-> "Some", val |-> Zero(T), ovf |-> FALSE]
        ELSE Let(RunLoop(T, Shifts(NumBits(T)),
                         [x |-> v, result |-> Zero(T), ovf |-> FALSE]), LAMBDA st :
                 [tag |-> "Some", val |-> st.result, ovf |-> st.ovf]))

-----------------------------------------------------------------------------
(* Inputs.                                                                 *)

\* every value of magnitude up to DenseMax of the 8 and 16 bit types, and
\* up to DenseWide of the wider types, is an input
DenseMax == 2200
DenseWide == 70
\* the cubes of the NearTop + 1 largest roots of every type are inputs
NearTop == 2

Dense(T) == IF T.bits <= 16 THEN DenseMax ELSE DenseWide

\* n halvings of the interval iv = <<lo, hi>>, lo^3 <= v < hi^3
RECURSIVE Bisect(_, _, _)
Bisect(v, iv, n) ==
    IF n = 0 THEN iv
    ELSE IF n = 1
    THEN Let(Shr(Add(iv[1], iv[2]), 1), LAMBDA mid :
             IF Geq(v, Cube(mid)) THEN <<mid, iv[2]>> ELSE <<iv[1], mid>>)
    ELSE Let(Bisect(v, iv, n \div 2), LAMBDA half :
             Bisect(v, half, n - n \div 2))

\* the largest r with r^3 <= v
RefCbrt(v) ==
    Let(v, LAMBDA e :
        Bisect(e, <<<<>>, Pow2(Len(e) * 5 + 1)>>, Len(e) * 5 + 1)[1])

\* the values in lib.rs's tests and the benchmarks beyond the dense range
TestValues ==
    { FromInt(511),
      Cube(FromInt(100000)),
      Dec(23985, 346875),
      Dec(24958973, 498745) }

\* the roots whose cubes are inputs: 2^i - 1, 2^i, and the largest ones
CubeBases(T) ==
    Let(RefCbrt(MaxValue(T)), LAMBDA top :
        { a \in UNION {{Pred(Pow2(i)), Pow2(i)} : i \in 0..(T.bits \div 3)}
                \cup {Sub(top, FromInt(d)) : d \in 0..NearTop} : Geq(top, a) })

NonNegInputs(T) ==
    { a \in {FromInt(n) : n \in 0..Dense(T)}
            \cup UNION {{Pred(Pow2(j)), Pow2(j)} : j \in 0..(T.bits - 1)}
            \cup UNION {{Pred(Cube(k)), Cube(k)} : k \in CubeBases(T)}
            \cup {MaxValue(T), Pred(MaxValue(T))}
            \cup TestValues : Geq(MaxValue(T), a) }

NegInputs(T) ==
    IF T.signed
    THEN { Sub(Modulus(T), m) :
             m \in { a \in {FromInt(n) : n \in 1..Dense(T)}
                           \cup UNION {{Pred(Pow2(j)), Pow2(j)} : j \in 1..(T.bits - 1)} :
                     Geq(SignBit(T), a) } }
    ELSE {}

Inputs(T) == NonNegInputs(T) \cup NegInputs(T)

-----------------------------------------------------------------------------
(* The program: one call of integer_cbrt on a value self of type T.        *)

VARIABLES
    T,        \* the type the trait is used at
    self,     \* the receiver
    pc,       \* "call", "loop", "ret" (integer_cbrt_checked has returned),
              \* "done" (integer_cbrt has returned), "panic" (expect failed),
              \* "overflow" (a build with overflow checks stopped in the loop)
    x,        \* let mut x
    result,   \* let mut result
    iter,     \* what the for loop's iterator has yet to yield
    s,        \* the loop variable (-1 before the first pass)
    steps,    \* passes of the loop body made
    taken,    \* passes that took the subtract-and-increment branch
    inRange,  \* every value computed so far lies in [0, MAX], every shift < bits
    wrapped,  \* an operation has wrapped (a build without overflow checks)
    opt,      \* what integer_cbrt_checked returned
    out       \* what integer_cbrt returned

vars == <<T, self, pc, x, result, iter, s, steps, taken, inRange, wrapped, opt, out>>

Unset == [tag |-> "unset", val |-> <<>>]

ExpectMsg == "cannot calculate cube root of negative number"

Init ==
    /\ T \in Types
    /\ self \in Inputs(T)
    /\ pc = "call"
    /\ x = <<>>
    /\ result = <<>>
    /\ iter = <<>>
    /\ s = -1
    /\ steps = 0
    /\ taken = 0
    /\ inRange = TRUE
    /\ wrapped = FALSE
    /\ opt = Unset
    /\ out = Unset

\* lib.rs 45-59: the match on self.cmp(&T::zero()), then the loop's set-up
Enter ==
    /\ pc = "call"
    /\ LET ord == CmpZero(T, self)
       IN  IF ord = "Less"
           THEN /\ opt' = [tag |-> "None", val |-> <<>>]
                /\ pc' = "ret"
                /\ UNCHANGED <<x, result, iter>>
           ELSE IF ord = "Equal"
           THEN /\ opt' = [tag |-> "Some", val |-> Zero(T)]
                /\ pc' = "ret"
                /\ UNCHANGED <<x, result, iter>>
           ELSE /\ x' = self
                /\ result' = Zero(T)
                /\ iter' = Shifts(NumBits(T))
                /\ pc' = "loop"
                /\ UNCHANGED opt
    /\ UNCHANGED <<T, self, s, steps, taken, inRange, wrapped, out>>

\* lib.rs 60-67: one pass of the for loop.  An overflow stops a build with
\* overflow checks and wraps in a build without them.
LoopStep ==
    /\ pc = "loop"
    /\ iter # <<>>
    /\ \E body \in {LoopBody(T, Head(iter), x, result)} :
           /\ s' = Head(iter)
           /\ iter' = Tail(iter)
           /\ steps' = steps + 1
           /\ inRange' = (inRange /\ body.ok)
           /\ \/ /\ wrapped' = (wrapped \/ body.ovf)
                 /\ x' = body.x
                 /\ result' = body.result
                 /\ taken' = taken + (IF body.taken THEN 1 ELSE 0)
                 /\ pc' = "loop"
              \/ /\ body.ovf
                 /\ ~wrapped
                 /\ pc' = "overflow"
                 /\ UNCHANGED <<x, result, taken, wrapped>>
    /\ UNCHANGED <<T, self, opt, out>>

\* lib.rs 68: Some(result)
LoopExit ==
    /\ pc = "loop"
    /\ iter = <<>>
    /\ opt' = [tag |-> "Some", val |-> result]
    /\ pc' = "ret"
    /\ UNCHANGED <<T, self, x, result, iter, s, steps, taken, inRange, wrapped, out>>

\* lib.rs 31-32: self.integer_cbrt_checked().expect(...)
Expect ==
    /\ pc = "ret"
    /\ IF opt.tag = "Some"
       THEN /\ out' = [tag |-> "value", val |-> opt.val]
            /\ pc' = "done"
       ELSE /\ out' = [tag |-> ExpectMsg, val |-> <<>>]
            /\ pc' = "panic"
    /\ UNCHANGED <<T, self, x, result, iter, s, steps, taken, inRange, wrapped, opt>>

Next == Enter \/ LoopStep \/ LoopExit \/ Expect

Spec == Init /\ [][Next]_vars

\* Enter with the arm Ordering::Equal => return Some(T::zero()) removed:
\* zero goes through the loop like every other non-negative value
EnterGeneral ==
    /\ pc = "call"
    /\ IF CmpZero(T, self) = "Less"
       THEN /\ opt' = [tag |-> "None", val |-> <<>>]
            /\ pc' = "ret"
            /\ UNCHANGED <<x, result, iter>>
       ELSE /\ x' = self
            /\ result' = Zero(T)
            /\ iter' = Shifts(NumBits(T))
            /\ pc' = "loop"
            /\ UNCHANGED opt
    /\ UNCHANGED <<T, self, s, steps, taken, inRange, wrapped, out>>

NextGeneral == Enter \/ EnterGeneral \/ LoopStep \/ LoopExit \/ Expect

\* the program, and the program without the shortcut for zero
SpecGeneral == Init /\ [][NextGeneral]_vars

-----------------------------------------------------------------------------
(* Properties.                                                             *)

U8   == [bits |-> 8, signed |-> FALSE]
I8   == [bits |-> 8, signed |-> TRUE]
U16  == [bits |-> 16, signed |-> FALSE]
U64  == [bits |-> 64, signed |-> FALSE]
U128 == [bits |-> 128, signed |-> FALSE]
I128 == [bits |-> 128, signed |-> TRUE]

\* r^3 <= v < (r + 1)^3, as natural numbers
IsFloorCbrt(r, v) == Geq(v, Cube(r)) /\ Gt(Cube(Succ(r)), v)

Returned == pc \in {"ret", "done"}

\* C1: for every type and every non-negative value v of it,
\* integer_cbrt_checked(v) returns Some(r) and integer_cbrt(v) returns that
\* r, a value of the type with r^3 <= v < (r + 1)^3 over the integers; the
\* call never panics.
C1_FloorCubeRoot ==
    ~IsNeg(T, self) =>
        /\ pc \notin {"panic", "overflow"}
        /\ Returned =>
              /\ opt.tag = "Some"
              /\ ~IsNeg(T, opt.val)
              /\ Geq(MaxValue(T), opt.val)
              /\ IsFloorCbrt(opt.val, self)
        /\ pc = "done" =>
              /\ out = [tag |-> "value", val |-> opt.val]
              /\ IntegerCbrtChecked(T, self) =
                     [tag |-> "Some", val |-> out.val, ovf |-> FALSE]

C1_Witness ==
    /\ pc = "done"
    /\ T = I128
    /\ self = Dec(24958973, 498745)
    /\ out.val = FromInt(29224)
    /\ taken > 1

\* C2: for every signed type and every v < 0, integer_cbrt_checked(v)
\* returns None and integer_cbrt(v) panics with the message of expect; the
\* value is rejected before the loop: no pass is made, x, result and the
\* iterator are never set.
C2_NegativeRejected ==
    IsNeg(T, self) =>
        /\ pc \in {"call", "ret", "panic"}
        /\ steps = 0 /\ taken = 0 /\ s = -1
        /\ x = <<>> /\ result = <<>> /\ iter = <<>>
        /\ inRange /\ ~wrapped
        /\ pc = "call" => opt = Unset
        /\ pc \in {"ret", "panic"} => opt = [tag |-> "None", val |-> <<>>]
        /\ pc = "panic" => out = [tag |-> ExpectMsg, val |-> <<>>]
        /\ pc # "panic" => out = Unset /\ ENABLED Next

C2_Witness ==
    /\ pc = "panic"
    /\ T = I8
    /\ self = Sub(Modulus(I8), FromInt(128))
    /\ out.tag = "cannot calculate cube root of negative number"

\* C3: for every type and every non-negative input, every value the loop
\* computes (result + result, three * result, three * result * (result + one),
\* b, x >> s, b << s, x - (b << s), result + one) lies in [0, MAX]: nothing
\* overflows or wraps, no subtraction goes below zero, every shift s < bits.
C3_NoOverflow ==
    ~IsNeg(T, self) =>
        /\ inRange
        /\ ~wrapped
        /\ pc # "overflow"
        /\ s < T.bits
        /\ \A i \in 1..Len(iter) : iter[i] \in 0..(T.bits - 1)
        /\ ~IsNeg(T, x) /\ ~IsNeg(T, result)
        /\ Geq(MaxValue(T), x) /\ Geq(MaxValue(T), result)

C3_Witness ==
    /\ pc = "done"
    /\ T = U8
    /\ self = MaxValue(U8)
    /\ taken = 2
    /\ out.val = FromInt(6)
    /\ inRange

\* C4: integer_cbrt(MAX) and integer_cbrt(MAX - 1) are the largest r of the
\* type whose cube is a value of the type: r^3 <= MAX, and r + 1 or its cube
\* exceeds MAX; 2642245 for u64, 6981463658331 for u128, 5541191377756 for
\* i128.
C4_MaxValue ==
    (pc = "done" /\ self \in {MaxValue(T), Pred(MaxValue(T))}) =>
        /\ out.tag = "value"
        /\ Geq(MaxValue(T), Cube(out.val))
        /\ Gt(Succ(out.val), MaxValue(T)) \/ Gt(Cube(Succ(out.val)), MaxValue(T))
        /\ T = U64 => out.val = FromInt(2642245)
        /\ T = U128 => out.val = Dec(6981463, 658331)
        /\ T = I128 => out.val = Dec(5541191, 377756)

C4_Witness ==
    /\ pc = "done"
    /\ T = U128
    /\ self = Pred(MaxValue(U128))
    /\ out.val = Dec(6981463, 658331)

\* the values integer_cbrt of self is compared with: its neighbours, its
\* half, its double
Below(v) == {Pred(v), Shr(v, 1)}

Above(v) == {Succ(v), Add(v, v)}

\* C5: integer_cbrt is monotonic: for non-negative a <= self <= b of the
\* type, integer_cbrt(a) <= integer_cbrt(self) <= integer_cbrt(b).
C5_Monotonic ==
    (pc = "done" /\ ~IsNeg(T, self)) =>
        /\ \A a \in Below(self) :
              Let(IntegerCbrtChecked(T, a), LAMBDA r :
                  r.tag = "Some" /\ ~r.ovf /\ Geq(out.val, r.val))
        /\ \A b \in Above(self) :
              Geq(MaxValue(T), b) =>
                  Let(IntegerCbrtChecked(T, b), LAMBDA r :
                      r.tag = "Some" /\ ~r.ovf /\ Geq(r.val, out.val))

C5_Witness ==
    /\ pc = "done"
    /\ T = U64
    /\ self = Cube(FromInt(100000))
    /\ out.val = FromInt(100000)
    /\ IntegerCbrtChecked(U64, Pred(self)).val = FromInt(99999)
    /\ IntegerCbrtChecked(U64, Add(self, self)).val = FromInt(125992)

\* the only k for which v = k^3 or v = k^3 - 1 can hold: the floor cube
\* root of v, found by bisection, and its successor
CubeCandidates(v) == Let(RefCbrt(v), LAMBDA r : {r, Succ(r)})

\* C6: for every k >= 0 whose cube is a value of the type,
\* integer_cbrt(k^3) = k and, for k >= 1, integer_cbrt(k^3 - 1) = k - 1
\* (8 -> 2, 64 -> 4, 63 -> 3, 511 -> 7, 10^15 -> 100000).
C6_PerfectCubes ==
    (pc = "done" /\ ~IsNeg(T, self)) =>
        /\ \A k \in CubeCandidates(self) :
              Let(Cube(k), LAMBDA c :
                  /\ self = c => out.val = k
                  /\ (k # <<>> /\ self = Pred(c)) => out.val = Pred(k))
        /\ self = FromInt(8) => out.val = FromInt(2)
        /\ self = FromInt(64) => out.val = FromInt(4)
        /\ self = FromInt(63) => out.val = FromInt(3)
        /\ self = FromInt(511) => out.val = FromInt(7)
        /\ self = Dec(1000000000, 0) => out.val = FromInt(100000)

C6_Witness ==
    /\ pc = "done"
    /\ T = U64
    /\ self = Dec(1000000000, 0)
    /\ self = Cube(FromInt(100000))
    /\ out.val = FromInt(100000)

\* ceil(num_bits / 3) for the five widths
StepsOf(bits) ==
    CASE bits = 8 -> 3 [] bits = 16 -> 6 [] bits = 32 -> 11
      [] bits = 64 -> 22 [] bits = 128 -> 43

Positive == ~IsNeg(T, self) /\ self # <<>>

\* C7: for a positive input the loop makes exactly ceil(num_bits / 3) passes
\* whatever the value (3, 6, 11, 22, 43), and s takes the multiples of 3 from
\* the largest one below num_bits down to 0, one after the other.
C7_StepCount ==
    Positive =>
        /\ steps <= StepsOf(T.bits)
        /\ StepsOf(T.bits) = (T.bits + 2) \div 3
        /\ pc = "call" => steps = 0
        /\ (pc = "loop" /\ steps = 0) =>
              iter # <<>> /\ Head(iter) = 3 * ((T.bits - 1) \div 3)
        /\ steps >= 1 => s = 3 * ((T.bits - 1) \div 3) - 3 * (steps - 1)
        /\ (pc = "loop" /\ steps >= 1 /\ iter # <<>>) => Head(iter) = s - 3
        /\ (pc = "loop" /\ iter = <<>>) => s = 0
        /\ Returned => steps = StepsOf(T.bits) /\ s = 0

C7_Witness ==
    /\ pc = "done"
    /\ T = U128
    /\ self = <<1>>
    /\ steps = 43
    /\ s = 0

\* C8: integer_cbrt(0) = 0 for every type, and the loop run on 0, without
\* the early return for zero, also ends with result = 0 and never takes the
\* subtract-and-increment branch.
C8_ZeroShortcut ==
    self = <<>> =>
        /\ x = <<>> /\ result = <<>> /\ taken = 0
        /\ inRange /\ ~wrapped
        /\ pc \notin {"panic", "overflow"}
        /\ Returned => opt = [tag |-> "Some", val |-> <<>>]
        /\ pc = "done" => out = [tag |-> "value", val |-> <<>>]

C8_Witness ==
    /\ self = <<>>
    /\ pc = "done"
    /\ T = I128
    /\ steps = 43
    /\ taken = 0
    /\ out.val = <<>>

\* the type of the other signedness, of twice and of half the width
Related(U) ==
    { V \in Types : \/ V.bits = U.bits /\ V.signed # U.signed
                    \/ V.signed = U.signed /\ V.bits \in {2 * U.bits, U.bits \div 2} }

\* C9: the result does not depend on the type: for a non-negative v that is
\* a value of two types, integer_cbrt(v) is the same in both.
C9_TypeIndependent ==
    (pc = "done" /\ ~IsNeg(T, self)) =>
        \A V \in Related(T) :
            Geq(MaxValue(V), self) =>
                IntegerCbrtChecked(V, self) =
                    [tag |-> "Some", val |-> out.val, ovf |-> FALSE]

C9_Witness ==
    /\ pc = "done"
    /\ T = I8
    /\ self = FromInt(127)
    /\ steps = 3
    /\ IntegerCbrtChecked(U8, self).val = out.val
    /\ IntegerCbrtChecked([bits |-> 16, signed |-> TRUE], self).val = out.val
    /\ out.val = FromInt(5)

\* C10: for a positive input, after the pass with shift s, result is the
\* floor cube root of self >> s and x = self - (result^3 << s), so
\* 0 <= x <= self; after the last pass (s = 0) result is the floor cube root
\* of self and x = self - result^3.
C10_LoopInvariant ==
    (Positive /\ steps >= 1 /\ pc # "overflow") =>
        /\ IsFloorCbrt(result, Shr(self, s))
        /\ Add(x, Shl(Cube(result), s)) = self
        /\ Geq(self, x)
        /\ ~IsNeg(T, x)
        /\ Returned => s = 0 /\ opt.val = result /\ Add(x, Cube(result)) = self

C10_Witness ==
    /\ pc = "loop"
    /\ T = U64
    /\ self = MaxValue(U64)
    /\ s = 30
    /\ steps = 12
    /\ IsFloorCbrt(result, Shr(self, 30))
    /\ x # self

=============================================================================
